---- MODULE Spec2Model ----
(***************************************************************************)
(* Model of crates/sdk/src/tracing.rs: the one-time tracing initializer    *)
(* init_tracing and the two request hooks make_span and on_response.       *)
(*                                                                         *)
(* Spans are modelled as the tracing runtime records them: the fields      *)
(* declared by info_span!, the parent attached by set_parent, and whether  *)
(* the span is still open.  Formatting (Display / Debug) is modelled by    *)
(* what it prints, so a recorded field holds the printed text.             *)
(***************************************************************************)
EXTENDS Integers, Sequences, FiniteSets, TLC

\* ------------------------------------------------------------------ bounds
NumRequests == 2

Req == 1..NumRequests

\* ---------------------------------------------------------- build constants
CARGO_PKG_NAME == "ndc-sdk"
CARGO_PKG_VERSION == "0.1.0"
OTEL_EXPORTER_OTLP_ENDPOINT_DEFAULT == "http://localhost:4317"
FilterDirectives == "info,otel::tracing=trace,otel=debug"

\* Option<&str>: None is the empty tuple, Some(s) is <<s>>.
None == <<>>
Some(s) == <<s>>

unwrap_or(opt, default) == IF opt = None THEN default ELSE opt[1]

\* ------------------------------------------------------------ init inputs
InitArgs == {[service_name |-> None, otlp_endpoint |-> None],
             [service_name |-> Some("x"), otlp_endpoint |-> Some("http://collector:4317")],
             [service_name |-> None, otlp_endpoint |-> Some("not a uri")]}

\* The tonic exporter accepts an endpoint that parses as a URI.
EndpointWellFormed(e) == e \in {"http://localhost:4317", "http://collector:4317"}

\* EnvFilter::builder().parse: every comma-separated directive must be a
\* level or target=level; the directive strings the program can pass are
\* listed with their outcome.
FilterParses(s) == s \in {"info", "info,otel::tracing=trace,otel=debug"}

\* ---------------------------------------------------------- trace context
\* A span context: ids are numbers, 0 standing for the all-zero id.
EmptyContext == [trace_id |-> 0, span_id |-> 0, sampled |-> FALSE, remote |-> FALSE]

is_valid(sc) == sc.trace_id # 0 /\ sc.span_id # 0

\* A traceparent header value split at '-': <<version, trace-id, span-id, flags>>.
NoHeader == <<>>
MAX_VERSION == 254

\* TraceContextPropagator::extract: a header that does not parse, or that
\* names an all-zero id, leaves the context without a span.
ExtractTraceContext(h) ==
    IF h = NoHeader THEN EmptyContext
    ELSE IF Len(h[1]) < 4 THEN EmptyContext
    ELSE IF h[1][1] > MAX_VERSION \/ (h[1][1] = 0 /\ Len(h[1]) # 4) THEN EmptyContext
    ELSE IF h[1][1] = 0 /\ h[1][4] > 2 THEN EmptyContext
    ELSE LET sc == [trace_id |-> h[1][2], span_id |-> h[1][3],
                    sampled |-> (h[1][4] % 2 = 1), remote |-> TRUE]
         IN IF is_valid(sc) THEN sc ELSE EmptyContext

\* get_text_map_propagator(|p| p.extract(headers)): the default global
\* propagator is the no-op one, which extracts nothing.
Extract(prop, h) ==
    IF prop = "TraceContext" THEN ExtractTraceContext(h) ELSE EmptyContext

\* --------------------------------------------------------------- requests
MethodDisplay(m) ==
    CASE m = "Get" -> "GET"
      [] m = "Post" -> "POST"

UriDisplay(u) == IF u.query = None THEN u.path ELSE u.path \o "?" \o u.query[1]

VersionDebug(v) ==
    CASE v = "Http10" -> "HTTP/1.0"
      [] v = "Http11" -> "HTTP/1.1"
      [] v = "H2" -> "HTTP/2.0"

Requests ==
    {[method |-> "Get", uri |-> [path |-> "/health", query |-> None],
      version |-> "Http11", traceparent |-> NoHeader],
     [method |-> "Post", uri |-> [path |-> "/query", query |-> Some("limit=1")],
      version |-> "H2", traceparent |-> Some(<<0, 1, 2, 1>>)],
     [method |-> "Get", uri |-> [path |-> "/health", query |-> None],
      version |-> "Http11", traceparent |-> Some(<<0, 0, 0, 1>>)],
     [method |-> "Post", uri |-> [path |-> "/query", query |-> None],
      version |-> "Http10", traceparent |-> Some(<<0, 1>>)]}

NoRequest == [none |-> TRUE]

\* -------------------------------------------------------------- responses
NANOS_PER_SEC == 1000000000

\* Variant: the duration in whole microseconds.
as_micros(d) == d.secs * 1000000 + d.nanos \div 1000

\* Duration::as_nanos
as_nanos(d) == d.secs * NANOS_PER_SEC + d.nanos

canonical_reason(code) ==
    CASE code = 200 -> Some("OK")
      [] code = 404 -> Some("Not Found")
      [] code = 500 -> Some("Internal Server Error")
      [] OTHER -> None

\* Display for http::StatusCode: the number, a space, the canonical reason.
StatusDisplay(code) ==
    ToString(code) \o " " \o unwrap_or(canonical_reason(code), "<unknown status code>")

Responses ==
    {[status |-> 200, latency |-> [secs |-> 0, nanos |-> 5000000]],
     [status |-> 299, latency |-> [secs |-> 1, nanos |-> 0]]}

NoResponse == [none |-> TRUE]

\* ------------------------------------------------------------------ spans
\* A field declared with tracing::field::Empty holds no value.
Empty == <<>>
Recorded(text) == <<text>>

NoParent == <<>>
NoSpan == [name |-> "none"]

VARIABLES
    propagator,    \* the global text-map propagator
    subscriber,    \* the global default subscriber
    initPc,        \* where the running init_tracing call stands
    initArgs,      \* the arguments of the latest init_tracing call
    initTracer,    \* the tracer the running call has built
    initLog,       \* the global side effects of the latest call, in order
    initResult,    \* what the latest init_tracing call returned
    initOkBefore,  \* whether a call before the latest one returned Ok
    requests,      \* the request each make_span call was given
    extracted,     \* the context the propagator extracted in that call
    responses,     \* the response the latest on_response call was given
    spans          \* the span of each request

vars == <<propagator, subscriber, initPc, initArgs, initTracer, initLog,
          initResult, initOkBefore, requests, extracted, responses, spans>>

initVars == <<propagator, subscriber, initPc, initArgs, initTracer, initLog,
              initResult, initOkBefore>>
reqVars == <<requests, extracted, responses, spans>>

NoSubscriber == [none |-> TRUE]
NoTracer == [none |-> TRUE]
NoArgs == [none |-> TRUE]

Init ==
    /\ propagator = "Noop"
    /\ subscriber = NoSubscriber
    /\ initPc = "idle"
    /\ initArgs = NoArgs
    /\ initTracer = NoTracer
    /\ initLog = <<>>
    /\ initResult = "NotCalled"
    /\ initOkBefore = FALSE
    /\ requests = [r \in Req |-> NoRequest]
    /\ extracted = [r \in Req |-> EmptyContext]
    /\ responses = [r \in Req |-> NoResponse]
    /\ spans = [r \in Req |-> NoSpan]

\* ----------------------------------------------------------- init_tracing
Return(result) ==
    /\ initResult' = result
    /\ initPc' = "idle"
    /\ initTracer' = NoTracer

\* Lines 16-18: the call begins by installing the global propagator.
SetPropagator(args) ==
    /\ initPc = "idle"
    /\ propagator' = "TraceContext"
    /\ initArgs' = args
    /\ initLog' = <<"propagator">>
    /\ initResult' = "Running"
    /\ initOkBefore' = (initOkBefore \/ initResult = "Ok")
    /\ initPc' = "install_batch"
    /\ UNCHANGED <<subscriber, initTracer, reqVars>>

\* Variant: the service name argument is dropped.
PipelineConfig_default_name(args) ==
    [endpoint |-> unwrap_or(args.otlp_endpoint, OTEL_EXPORTER_OTLP_ENDPOINT_DEFAULT),
     service_name |-> CARGO_PKG_NAME,
     service_version |-> CARGO_PKG_VERSION,
     sampler |-> "ParentBased(AlwaysOn)"]

\* Lines 20-40: the pipeline's configuration, with the defaults of the two
\* optional arguments.
PipelineConfig(args) ==
    [endpoint |-> unwrap_or(args.otlp_endpoint, OTEL_EXPORTER_OTLP_ENDPOINT_DEFAULT),
     service_name |-> unwrap_or(args.service_name, CARGO_PKG_NAME),
     service_version |-> CARGO_PKG_VERSION,
     sampler |-> "ParentBased(AlwaysOn)"]

\* Variant: a failed pipeline build puts the no-op propagator back.
InstallBatch_rollback ==
    /\ initPc = "install_batch"
    /\ LET config == PipelineConfig(initArgs)
       IN IF EndpointWellFormed(config.endpoint)
          THEN /\ initTracer' = config
               /\ initLog' = Append(initLog, "pipeline")
               /\ initPc' = "parse_filter"
               /\ UNCHANGED <<initResult, propagator>>
          ELSE /\ Return("Err")
               /\ propagator' = "Noop"
               /\ UNCHANGED initLog
    /\ UNCHANGED <<subscriber, initArgs, initOkBefore, reqVars>>

\* Lines 20-41: install_batch builds the exporter pipeline; `?` returns its
\* error.
InstallBatch ==
    /\ initPc = "install_batch"
    /\ LET config == PipelineConfig(initArgs)
       IN IF EndpointWellFormed(config.endpoint)
          THEN /\ initTracer' = config
               /\ initLog' = Append(initLog, "pipeline")
               /\ initPc' = "parse_filter"
               /\ UNCHANGED initResult
          ELSE /\ Return("Err")
               /\ UNCHANGED initLog
    /\ UNCHANGED <<propagator, subscriber, initArgs, initOkBefore, reqVars>>

\* Line 49: the filter directives; `?` returns the parse error.
ParseFilter ==
    /\ initPc = "parse_filter"
    /\ IF FilterParses(FilterDirectives)
       THEN /\ initLog' = Append(initLog, "filter")
            /\ initPc' = "init"
            /\ UNCHANGED <<initTracer, initResult>>
       ELSE /\ Return("Err")
            /\ UNCHANGED initLog
    /\ UNCHANGED <<propagator, subscriber, initArgs, initOkBefore, reqVars>>

\* Lines 43-57: SubscriberInitExt::init registers the layered subscriber as
\* the global default and panics when one is already registered.
RegisterSubscriber ==
    /\ initPc = "init"
    /\ IF subscriber = NoSubscriber
       THEN /\ subscriber' = [tracer |-> initTracer,
                              error_records_to_exceptions |-> TRUE,
                              filter |-> FilterDirectives,
                              fmt |-> "json"]
            /\ initLog' = Append(initLog, "subscriber")
            /\ Return("Ok")
       ELSE /\ Return("Panic")
            /\ UNCHANGED <<subscriber, initLog>>
    /\ UNCHANGED <<propagator, initArgs, initOkBefore, reqVars>>

\* -------------------------------------------------------------- make_span
\* The span info_span! creates at lines 65-72.
NewSpan(request) ==
    [name |-> "request",
     method |-> Recorded(MethodDisplay(request.method)),
     uri |-> Recorded(UriDisplay(request.uri)),
     version |-> Recorded(VersionDebug(request.version)),
     status |-> Empty,
     latency |-> Empty,
     parent |-> NoParent,
     open |-> TRUE]

\* Variant: the extracted context is never attached.
make_span_no_parent(r, request) ==
    /\ spans[r] = NoSpan
    /\ spans' = [spans EXCEPT ![r] = NewSpan(request)]
    /\ requests' = [requests EXCEPT ![r] = request]
    /\ extracted' = [extracted EXCEPT ![r] = Extract(propagator, request.traceparent)]
    /\ UNCHANGED <<initVars, responses>>

\* Variant: the extracted context is attached without the validity check.
make_span_unchecked_parent(r, request) ==
    /\ spans[r] = NoSpan
    /\ spans' = [spans EXCEPT ![r] =
                    [NewSpan(request) EXCEPT
                       !.parent = <<Extract(propagator, request.traceparent)>>]]
    /\ requests' = [requests EXCEPT ![r] = request]
    /\ extracted' = [extracted EXCEPT ![r] = Extract(propagator, request.traceparent)]
    /\ UNCHANGED <<initVars, responses>>

\* Variant: status is declared with an empty text instead of Empty.
make_span_status_prefilled(r, request) ==
    /\ spans[r] = NoSpan
    /\ LET span == [NewSpan(request) EXCEPT !.status = Recorded("")]
           parent_context == Extract(propagator, request.traceparent)
       IN spans' = [spans EXCEPT ![r] =
                        IF is_valid(parent_context)
                        THEN [span EXCEPT !.parent = <<parent_context>>]
                        ELSE span]
    /\ requests' = [requests EXCEPT ![r] = request]
    /\ extracted' = [extracted EXCEPT ![r] = Extract(propagator, request.traceparent)]
    /\ UNCHANGED <<initVars, responses>>

\* Lines 62-89.
make_span(r, request) ==
    /\ spans[r] = NoSpan
    /\ LET span == NewSpan(request)
           parent_context == Extract(propagator, request.traceparent)
       IN spans' = [spans EXCEPT ![r] =
                        IF is_valid(parent_context)
                        THEN [span EXCEPT !.parent = <<parent_context>>]
                        ELSE span]
    /\ requests' = [requests EXCEPT ![r] = request]
    /\ extracted' = [extracted EXCEPT ![r] = Extract(propagator, request.traceparent)]
    /\ UNCHANGED <<initVars, responses>>

\* ------------------------------------------------------------ on_response
\* Variant: only the status is recorded.
on_response_status_only(r, response) ==
    /\ spans[r] # NoSpan
    /\ spans[r].open
    /\ spans' = [spans EXCEPT
                   ![r].status = Recorded(StatusDisplay(response.status))]
    /\ responses' = [responses EXCEPT ![r] = response]
    /\ UNCHANGED <<initVars, requests, extracted>>

\* Variant: the values are recorded on every open span, not on the one given.
on_response_all_spans(r, response) ==
    /\ spans[r] # NoSpan
    /\ spans[r].open
    /\ spans' = [q \in Req |->
                   IF spans[q] # NoSpan /\ spans[q].open
                   THEN [spans[q] EXCEPT
                           !.status = Recorded(StatusDisplay(response.status)),
                           !.latency = Recorded(ToString(as_nanos(response.latency)))]
                   ELSE spans[q]]
    /\ responses' = [responses EXCEPT ![r] = response]
    /\ UNCHANGED <<initVars, requests, extracted>>

\* Variant: the span is closed once the values are recorded.
on_response_closes(r, response) ==
    /\ spans[r] # NoSpan
    /\ spans[r].open
    /\ spans' = [spans EXCEPT
                   ![r].status = Recorded(StatusDisplay(response.status)),
                   ![r].latency = Recorded(ToString(as_nanos(response.latency))),
                   ![r].open = FALSE]
    /\ responses' = [responses EXCEPT ![r] = response]
    /\ UNCHANGED <<initVars, requests, extracted>>

\* Lines 92-95.
on_response(r, response) ==
    /\ spans[r] # NoSpan
    /\ spans[r].open
    /\ spans' = [spans EXCEPT
                   ![r].status = Recorded(StatusDisplay(response.status)),
                   ![r].latency = Recorded(ToString(as_nanos(response.latency)))]
    /\ responses' = [responses EXCEPT ![r] = response]
    /\ UNCHANGED <<initVars, requests, extracted>>

\* The middleware drops its handle: the span closes and is handed to the
\* exporter with the fields it holds.
Close(r) ==
    /\ spans[r] # NoSpan
    /\ spans[r].open
    /\ spans' = [spans EXCEPT ![r].open = FALSE]
    /\ UNCHANGED <<initVars, requests, extracted, responses>>

Next ==
    \/ \E args \in InitArgs : SetPropagator(args)
    \/ InstallBatch
    \/ ParseFilter
    \/ RegisterSubscriber
    \/ \E r \in Req, request \in Requests : make_span(r, request)
    \/ \E r \in Req, response \in Responses : on_response(r, response)
    \/ \E r \in Req : Close(r)

Spec == Init /\ [][Next]_vars

\* ================================================================ claims
HasSpan(r) == spans[r] # NoSpan

HealthRequest ==
    [method |-> "Get", uri |-> [path |-> "/health", query |-> None],
     version |-> "Http11", traceparent |-> NoHeader]

Ok5ms == [status |-> 200, latency |-> [secs |-> 0, nanos |-> 5000000]]

\* C1: a second init_tracing call made after a first one has succeeded
\* returns Err to its caller, and ends in no other way.
C1_SecondInitReturnsErr ==
    (initOkBefore /\ initResult # "Running") => initResult = "Err"

\* C2: whenever the context the global propagator extracted from the
\* request's headers is valid, the span make_span returned has exactly that
\* context as its parent.
C2_ValidParentAttached ==
    \A r \in Req :
        (HasSpan(r) /\ is_valid(extracted[r])) => spans[r].parent = <<extracted[r]>>

C2_Witness ==
    \E r \in Req :
        /\ HasSpan(r)
        /\ requests[r].traceparent = Some(<<0, 1, 2, 1>>)
        /\ is_valid(extracted[r])
        /\ spans[r].parent =
              <<[trace_id |-> 1, span_id |-> 2, sampled |-> TRUE, remote |-> TRUE]>>

\* A header value that names a parent: four parts, neither id all zero.
HeaderNamesParent(h) ==
    /\ h # NoHeader
    /\ Len(h[1]) = 4
    /\ h[1][2] # 0
    /\ h[1][3] # 0

\* C3: make_span always returns a span, and when the request has no
\* trace-context header, a malformed one, or one whose extracted context is
\* not valid, that span is a root span: no parent is attached.
C3_RootSpanOtherwise ==
    \A r \in Req :
        requests[r] # NoRequest =>
            /\ HasSpan(r)
            /\ (~HeaderNamesParent(requests[r].traceparent) \/ ~is_valid(extracted[r]))
                  => spans[r].parent = NoParent

C3_Witness ==
    \E r, q \in Req :
        /\ HasSpan(r) /\ HasSpan(q)
        /\ propagator = "TraceContext"
        /\ requests[r].traceparent = Some(<<0, 0, 0, 1>>)
        /\ requests[q].traceparent = Some(<<0, 1>>)
        /\ spans[r].parent = NoParent
        /\ spans[q].parent = NoParent

\* C4: a span make_span returned holds neither status nor latency until
\* on_response is called on it, and holds both after any such call.
C4_FieldsEmptyThenRecorded ==
    \A r \in Req :
        HasSpan(r) =>
            /\ responses[r] = NoResponse =>
                  (spans[r].status = Empty /\ spans[r].latency = Empty)
            /\ responses[r] # NoResponse =>
                  /\ spans[r].status # Empty /\ spans[r].status[1] # ""
                  /\ spans[r].latency # Empty /\ spans[r].latency[1] # ""

C4_Witness ==
    \E r, q \in Req :
        /\ HasSpan(r) /\ responses[r] = NoResponse /\ spans[r].status = Empty
        /\ HasSpan(q) /\ responses[q] # NoResponse /\ spans[q].latency # Empty

\* C5 as claimed: the span of GET /health HTTP/1.1 without a trace-context
\* header, answered 200 OK after 5ms, ends with status=200 and
\* latency=5000000.
C5_StatusIsBareCode ==
    \A r \in Req :
        (HasSpan(r) /\ requests[r] = HealthRequest /\ responses[r] = Ok5ms) =>
            /\ spans[r].method = Recorded("GET")
            /\ spans[r].uri = Recorded("/health")
            /\ spans[r].version = Recorded("HTTP/1.1")
            /\ spans[r].parent = NoParent
            /\ spans[r].status = Recorded("200")
            /\ spans[r].latency = Recorded("5000000")

\* C5 amended: the same span ends with status "200 OK", the status code
\* followed by its canonical reason, and latency=5000000, the duration in
\* whole nanoseconds; a code without a canonical reason is followed by
\* "<unknown status code>".
C5_StatusIsCodeAndReason ==
    \A r \in Req :
        /\ (HasSpan(r) /\ requests[r] = HealthRequest /\ responses[r] = Ok5ms) =>
              /\ spans[r].method = Recorded("GET")
              /\ spans[r].uri = Recorded("/health")
              /\ spans[r].version = Recorded("HTTP/1.1")
              /\ spans[r].parent = NoParent
              /\ spans[r].status = Recorded("200 OK")
              /\ spans[r].latency = Recorded("5000000")
        /\ (HasSpan(r) /\ responses[r] # NoResponse /\ responses[r].status = 299
               /\ responses[r].latency = [secs |-> 1, nanos |-> 0]) =>
              /\ spans[r].status = Recorded("299 <unknown status code>")
              /\ spans[r].latency = Recorded("1000000000")

C5_Witness ==
    \E r \in Req :
        /\ HasSpan(r)
        /\ requests[r] = HealthRequest
        /\ responses[r] = Ok5ms
        /\ spans[r].status = Recorded("200 OK")

\* C6: after init_tracing has returned Ok, the subscriber's tracer carries
\* the given service name, or the package name when none was given, and
\* exports to the given endpoint, or to the default endpoint when none was
\* given.
C6_ServiceNameAndEndpoint ==
    initResult = "Ok" =>
        /\ subscriber # NoSubscriber
        /\ subscriber.tracer.service_name =
              (IF initArgs.service_name = None THEN CARGO_PKG_NAME
               ELSE initArgs.service_name[1])
        /\ subscriber.tracer.endpoint =
              (IF initArgs.otlp_endpoint = None THEN OTEL_EXPORTER_OTLP_ENDPOINT_DEFAULT
               ELSE initArgs.otlp_endpoint[1])

C6_Witness ==
    /\ initResult = "Ok"
    /\ initArgs.service_name = Some("x")
    /\ subscriber.tracer.service_name = "x"
    /\ subscriber.tracer.endpoint = "http://collector:4317"

\* The stage of a span's life: created, annotated, closed.
Stage(s) ==
    IF ~s.open THEN "closed"
    ELSE IF s.status # Empty /\ s.latency # Empty THEN "annotated"
    ELSE "created"

StageOrder(a, b) ==
    \/ a = b
    \/ a = "created"
    \/ b = "closed"

\* C7: a span is created with status and latency empty, on_response makes
\* it annotated, no step takes a span back to an earlier stage or empties a
\* recorded field, and a span closed before any on_response call keeps
\* status and latency empty.
C7_Lifecycle ==
    [][\A r \in Req :
          /\ (~HasSpan(r) /\ spans'[r] # NoSpan) =>
                /\ Stage(spans'[r]) = "created"
                /\ spans'[r].status = Empty
                /\ spans'[r].latency = Empty
          /\ HasSpan(r) =>
                /\ spans'[r] # NoSpan
                /\ StageOrder(Stage(spans[r]), Stage(spans'[r]))
                /\ spans[r].status # Empty => spans'[r].status # Empty
                /\ spans[r].latency # Empty => spans'[r].latency # Empty
                /\ responses'[r] # responses[r] => Stage(spans'[r]) = "annotated"
                /\ ~spans[r].open => spans'[r] = spans[r]
                /\ (~spans'[r].open /\ responses'[r] = NoResponse) =>
                      (spans'[r].status = Empty /\ spans'[r].latency = Empty)
      ]_vars

C7_Witness ==
    \E r, q \in Req :
        /\ HasSpan(r) /\ ~spans[r].open /\ responses[r] = NoResponse
        /\ spans[r].status = Empty
        /\ HasSpan(q) /\ ~spans[q].open /\ responses[q] # NoResponse
        /\ spans[q].status # Empty

\* C8: a make_span or on_response call made for one request leaves every
\* other request's span as it was, no step changes two spans, and a step
\* that changes a span leaves the global propagator and subscriber alone.
C8_RequestsIndependent ==
    [][\A r \in Req :
          /\ (requests'[r] # requests[r] \/ responses'[r] # responses[r]) =>
                /\ \A q \in Req \ {r} : spans'[q] = spans[q]
                /\ propagator' = propagator
                /\ subscriber' = subscriber
          /\ spans'[r] # spans[r] =>
                /\ \A q \in Req \ {r} : spans'[q] = spans[q]
                /\ propagator' = propagator
                /\ subscriber' = subscriber
      ]_vars

C8_Witness ==
    \E r, q \in Req :
        /\ r # q
        /\ HasSpan(r) /\ HasSpan(q)
        /\ spans[r].open /\ spans[q].open
        /\ responses[r] = Ok5ms
        /\ responses[q] # NoResponse /\ responses[q] # Ok5ms
        /\ spans[r].status = Recorded("200 OK")
        /\ spans[q].status = Recorded("299 <unknown status code>")
        /\ spans[r].parent # spans[q].parent

\* C9: an on_response call changes nothing of the span but status and
\* latency, so method, uri, version and parent stay as make_span set them,
\* and the span is still open when the call returns.
C9_OnResponseFrame ==
    [][\A r \in Req :
          responses'[r] # responses[r] =>
              /\ spans'[r].open
              /\ spans'[r] = [spans[r] EXCEPT !.status = spans'[r].status,
                                              !.latency = spans'[r].latency]
              /\ spans'[r].method = Recorded(MethodDisplay(requests[r].method))
              /\ spans'[r].parent =
                    (IF is_valid(extracted[r]) THEN <<extracted[r]>> ELSE NoParent)
      ]_vars

C9_Witness ==
    \E r \in Req :
        /\ HasSpan(r)
        /\ responses[r] # NoResponse
        /\ spans[r].open
        /\ spans[r].parent # NoParent
        /\ spans[r].uri = Recorded("/query?limit=1")
        /\ spans[r].version = Recorded("HTTP/2.0")

InitOrder == <<"propagator", "pipeline", "filter", "subscriber">>

IsPrefix(s, t) == Len(s) <= Len(t) /\ s = SubSeq(t, 1, Len(s))

\* C10: init_tracing installs the propagator, builds the pipeline, parses
\* the filter and registers the subscriber in that order, so a call that
\* returns Err has registered no subscriber and leaves the propagator it
\* installed in place.
C10_ErrRegistersNothing ==
    [][/\ IsPrefix(initLog', InitOrder)
       /\ initPc' # "idle" => (Len(initLog') >= 1 /\ propagator' = "TraceContext")
       /\ subscriber' # subscriber =>
             (initLog = SubSeq(InitOrder, 1, 3) /\ initResult' = "Ok")
       /\ initResult' = "Err" =>
             /\ subscriber' = subscriber
             /\ \A i \in 1..Len(initLog') : initLog'[i] # "subscriber"
             /\ propagator' = "TraceContext"
      ]_vars

C10_Witness ==
    /\ initResult = "Err"
    /\ initArgs.otlp_endpoint = Some("not a uri")
    /\ subscriber = NoSubscriber
    /\ propagator = "TraceContext"
    /\ initLog = <<"propagator">>

====
